---- MODULE Spec2Model ----
(***************************************************************************)
(* Model of the ActiveSky historical weather analytics engine              *)
(* (services/weather_analytics.py) and of the activity recommendation      *)
(* engine (services/recomendacion.py).                                     *)
(*                                                                         *)
(* Numbers.  A real number x is the integer 1000 * x (thousandths).  An    *)
(* exact statistic that is a fraction is carried as a record [n, d] with   *)
(* d > 0, meaning n / d thousandths.  round(x, 1) yields a multiple of 100.*)
(* A Python dict is a record (a function on strings) when only membership  *)
(* and lookup matter, and a sequence of entries [k, v] when the iteration  *)
(* order of its keys matters.  A nullable number is <<>> (None) or <<x>>.  *)
(***************************************************************************)
EXTENDS Integers, Sequences, FiniteSets, TLC

VARIABLES
    results,          \* the raw sample set given to analyze_weather_data
    analytics,        \* the analytics record (analyze_weather_data's result)
    samples,          \* the six sample sequences analyze_weather_data built
    calls,            \* the per-metric analyzers analyze_weather_data invoked, in order
    arg_actividad,    \* the name given to evaluar_actividad_con_analytics
    evaluacion,       \* what evaluar_actividad_con_analytics returned
    arg_actividades,  \* the list given to obtener_recomendaciones_multiples
    multiples,        \* what obtener_recomendaciones_multiples returned
    tie,              \* the neighbour round(x, 1) yields for x halfway between two
    stat_metric,      \* the per-metric analyzer that is called on its own
    stat_values,      \* the sample sequence given to it (the minima, for temperature)
    stat_max_values,  \* the second sample sequence of analyze_temperature (the maxima)
    stat_summary,     \* what the analyzer returned
    tabla,            \* the activity-profile table of the module (rangos), shared
    par_call,         \* per caller: the call it makes and its arguments
    par_pc,           \* per caller: where its call stands
    par_i,            \* per caller: the index of the loop over the activities
    par_res,          \* per caller: the local dict "resultados"
    par_ret,          \* per caller: what its call returned
    req_endpoint,     \* the weather endpoint that was requested
    req_day,          \* its day parameter: a date, or a string strptime rejects
    req_activity,     \* its activity parameter
    req_format,       \* the format parameter of /forecast/download
    fetch_i,          \* get_weather_for: the loop variable i
    fetch_queries,    \* the requests sent to the provider so far, with their outcome
    fetch_results,    \* get_weather_for: the local list "results"
    fetch_outcome,    \* what get_weather_for returned or raised
    http_status,      \* the status the endpoint answered with
    pc                \* the position in the pipeline

stats == <<stat_metric, stat_values, stat_max_values, stat_summary>>

par == <<tabla, par_call, par_pc, par_i, par_res, par_ret>>

svc == <<req_endpoint, req_day, req_activity, req_format, fetch_i, fetch_queries,
         fetch_results, fetch_outcome, http_status>>

vars == <<results, analytics, samples, calls, arg_actividad, evaluacion, arg_actividades,
          multiples, tie, stats, par, svc, pc>>

\* ------------------------------------------------------------------ bounds

MaxYears == 2

\* the longest sample sequence given to a per-metric analyzer on its own
MaxLen == 3

\* ------------------------------------------------------------------ numbers

Unit == 10 * 100
Tenth == 10 * 10

None == <<>>
Some(x) == <<x>>

EmptyDict == [k \in {} |-> 0]

\* dict.get(key, default) on a record
Get(d, key, default) == IF key \in DOMAIN d THEN d[key] ELSE default

RECURSIVE Sum(_)
Sum(s) == IF s = <<>> THEN 0 ELSE Head(s) + Sum(Tail(s))

SeqMin(s) == CHOOSE x \in {s[i] : i \in DOMAIN s} : \A j \in DOMAIN s : x <= s[j]
SeqMax(s) == CHOOSE x \in {s[i] : i \in DOMAIN s} : \A j \in DOMAIN s : x >= s[j]

\* round(n / d, 1) for the exact fraction n / d (d > 0): the nearest multiple of
\* a tenth; a value halfway between two tenths is not representable in binary,
\* so the stored float lies on either side of it and the result is either
\* neighbour.  Which one is a function of the value; t names the function:
\* always the lower tenth ("down"), always the upper ("up"), the even or the
\* odd multiple of a tenth ("even", "odd").  Each of them is monotone, as
\* rounding a float is.
round1(n, d, t) ==
    LET q == n \div (d * Tenth)
        r == n - q * d * Tenth
    IN  IF 2 * r > d * Tenth THEN (q + 1) * Tenth
        ELSE IF 2 * r < d * Tenth THEN q * Tenth
        ELSE IF t = "up" THEN (q + 1) * Tenth
        ELSE IF t = "down" THEN q * Tenth
        ELSE IF (t = "even") = (q % 2 = 0) THEN q * Tenth
        ELSE (q + 1) * Tenth

\* the mean without the division by the number of samples
statistics_mean_suma(values) == [n |-> Sum(values), d |-> 1]

\* statistics.mean: the exact fraction sum / len
statistics_mean(values) == [n |-> Sum(values), d |-> Len(values)]

\* sorted(values)
RECURSIVE Insert(_, _)
Insert(x, s) ==
    IF s = <<>> THEN <<x>>
    ELSE IF x <= Head(s) THEN <<x>> \o s
    ELSE <<Head(s)>> \o Insert(x, Tail(s))

RECURSIVE sorted(_)
sorted(s) == IF s = <<>> THEN <<>> ELSE Insert(Head(s), sorted(Tail(s)))

\* statistics.median: the middle value, or the mean of the two middle values
statistics_median(values) ==
    LET s == sorted(values)
        n == Len(values)
    IN  IF n % 2 = 1 THEN [n |-> s[(n + 1) \div 2], d |-> 1]
        ELSE [n |-> s[n \div 2] + s[n \div 2 + 1], d |-> 2]

\* statistics.stdev rounded to one decimal: the sample standard deviation is
\* sqrt(Q / D) with Q = sum (n*x - S)^2 and D = n*n*(n-1); the result is the
\* tenth k with (k - 1/2) tenth <= sqrt(Q / D) < (k + 1/2) tenth.
RECURSIVE SumSq(_, _, _)
SumSq(s, n, S) ==
    IF s = <<>> THEN 0
    ELSE (n * Head(s) - S) * (n * Head(s) - S) + SumSq(Tail(s), n, S)

RECURSIVE RootTenths(_, _, _, _)
RootTenths(Q, D, k, t) ==
    LET hi == (2 * k + 1) * (2 * k + 1) * Tenth * Tenth * D
    IN  IF 4 * Q < hi THEN k
        ELSE IF 4 * Q = hi /\ t = "down" THEN k
        ELSE RootTenths(Q, D, k + 1, t)

stdev_round1(values, t) ==
    LET n == Len(values)
    IN  RootTenths(SumSq(values, n, Sum(values)), n * n * (n - 1), 0, t) * Tenth

\* ------------------------------------------------------------------ markers

\* the "insufficient data" marker of a per-metric analyzer
DatosInsuficientes == [error |-> "Datos insuficientes"]

\* the top-level error record of analyze_weather_data
NoHayDatos == [error |-> "No hay datos para analizar"]

\* an exception leaving a function: statistics.mean, statistics.median, min and
\* max raise on an empty sequence
Raise == [raise |-> "StatisticsError"]

IsRaise(r) == "raise" \in DOMAIN r
IsError(r) == "error" \in DOMAIN r

\* ------------------------------------------------------------------ classifiers

\* classify_wind_speed with every limit put in the band below it
classify_wind_speed_superior(speed) ==
    IF speed.n <= 2 * Unit * speed.d THEN "Calma"
    ELSE IF speed.n <= 5 * Unit * speed.d THEN "Brisa ligera"
    ELSE IF speed.n <= 10 * Unit * speed.d THEN "Viento moderado"
    ELSE IF speed.n <= 15 * Unit * speed.d THEN "Viento fuerte"
    ELSE "Viento muy fuerte"

classify_wind_speed(speed) ==
    IF speed.n < 2 * Unit * speed.d THEN "Calma"
    ELSE IF speed.n < 5 * Unit * speed.d THEN "Brisa ligera"
    ELSE IF speed.n < 10 * Unit * speed.d THEN "Viento moderado"
    ELSE IF speed.n < 15 * Unit * speed.d THEN "Viento fuerte"
    ELSE "Viento muy fuerte"

\* get_wind_recommendation with a maximum on a limit taken as above it
get_wind_recommendation_desde(avg, max_wind) ==
    IF max_wind.n >= 15 * Unit * max_wind.d
    THEN "Vientos muy fuertes registrados. Precaucion para actividades al aire libre."
    ELSE IF max_wind.n >= 10 * Unit * max_wind.d
    THEN "Vientos fuertes posibles. Considera actividades protegidas."
    ELSE IF avg.n < 5 * Unit * avg.d
    THEN "Vientos generalmente tranquilos. Buenas condiciones."
    ELSE "Vientos moderados. Condiciones aceptables."

get_wind_recommendation(avg, max_wind) ==
    IF max_wind.n > 15 * Unit * max_wind.d
    THEN "Vientos muy fuertes registrados. Precaucion para actividades al aire libre."
    ELSE IF max_wind.n > 10 * Unit * max_wind.d
    THEN "Vientos fuertes posibles. Considera actividades protegidas."
    ELSE IF avg.n < 5 * Unit * avg.d
    THEN "Vientos generalmente tranquilos. Buenas condiciones."
    ELSE "Vientos moderados. Condiciones aceptables."

classify_cloud_coverage(coverage) ==
    IF coverage.n < 25 * Unit * coverage.d THEN "Despejado"
    ELSE IF coverage.n < 50 * Unit * coverage.d THEN "Parcialmente nublado"
    ELSE IF coverage.n < 75 * Unit * coverage.d THEN "Nublado"
    ELSE "Muy nublado"

classify_uv_risk(uv_index) ==
    IF uv_index.n < 3 * Unit * uv_index.d THEN "Bajo"
    ELSE IF uv_index.n < 6 * Unit * uv_index.d THEN "Moderado"
    ELSE IF uv_index.n < 8 * Unit * uv_index.d THEN "Alto"
    ELSE IF uv_index.n < 11 * Unit * uv_index.d THEN "Muy alto"
    ELSE "Extremo"

get_uv_recommendation(max_uv) ==
    IF max_uv.n < 3 * Unit * max_uv.d THEN "Proteccion UV minima requerida."
    ELSE IF max_uv.n < 6 * Unit * max_uv.d
    THEN "Usa protector solar. Busca sombra al mediodia."
    ELSE IF max_uv.n < 8 * Unit * max_uv.d
    THEN "Proteccion necesaria. Protector solar, sombrero y lentes."
    ELSE "Proteccion extra necesaria. Evita exposicion prolongada."

\* the count with the lower limit left out of the bucket
CountIn_abierto(values, lo, hi) ==
    Cardinality({i \in DOMAIN values : lo < values[i] /\ (hi < 0 \/ values[i] < hi)})

\* len([v for v in values if lo <= v < hi]); hi = -1 stands for no upper limit
CountIn(values, lo, hi) ==
    Cardinality({i \in DOMAIN values : lo <= values[i] /\ (hi < 0 \/ values[i] < hi)})

Percentage(count, total, t) == round1(count * 100 * Unit, total, t)

classify_precipitation_intensity(rainy_days, t) ==
    IF rainy_days = <<>> THEN EmptyDict
    ELSE
        LET drizzle == Cardinality({i \in DOMAIN rainy_days :
                           Tenth < rainy_days[i] /\ rainy_days[i] < 2 * Unit})
            light == CountIn(rainy_days, 2 * Unit, 10 * Unit)
            moderate == CountIn(rainy_days, 10 * Unit, 30 * Unit)
            heavy == CountIn(rainy_days, 30 * Unit, -1)
            total == Len(rainy_days)
        IN  [drizzle |-> [count |-> drizzle, percentage |-> Percentage(drizzle, total, t)],
             light |-> [count |-> light, percentage |-> Percentage(light, total, t)],
             moderate |-> [count |-> moderate, percentage |-> Percentage(moderate, total, t)],
             heavy |-> [count |-> heavy, percentage |-> Percentage(heavy, total, t)]]

\* get_rain_recommendation that escalates from a mean of exactly 20 mm on
get_rain_recommendation_desde_20(probability, avg_mm) ==
    IF probability < 20 * Unit THEN "Muy baja probabilidad de lluvia. Condiciones ideales."
    ELSE IF probability < 40 * Unit THEN "Baja probabilidad de lluvia. Probablemente seguro."
    ELSE IF probability < 60 * Unit
    THEN "Probabilidad moderada de lluvia. Considera llevar proteccion."
    ELSE IF probability < 80 * Unit
    THEN "Alta probabilidad de lluvia. Planifica con precaucion."
    ELSE IF avg_mm >= 20 * Unit
    THEN "Muy alta probabilidad de lluvia intensa. No recomendado."
    ELSE "Muy alta probabilidad de lluvia. Lleva equipo impermeable."

\* probability and avg_mm are the rounded values analyze_precipitation passes
get_rain_recommendation(probability, avg_mm) ==
    IF probability < 20 * Unit THEN "Muy baja probabilidad de lluvia. Condiciones ideales."
    ELSE IF probability < 40 * Unit THEN "Baja probabilidad de lluvia. Probablemente seguro."
    ELSE IF probability < 60 * Unit
    THEN "Probabilidad moderada de lluvia. Considera llevar proteccion."
    ELSE IF probability < 80 * Unit
    THEN "Alta probabilidad de lluvia. Planifica con precaucion."
    ELSE IF avg_mm > 20 * Unit
    THEN "Muy alta probabilidad de lluvia intensa. No recomendado."
    ELSE "Muy alta probabilidad de lluvia. Lleva equipo impermeable."

\* ------------------------------------------------------------------ analyzers

Exact(x) == [n |-> x, d |-> 1]
RoundFrac(f, t) == round1(f.n, f.d, t)

\* the summary of one temperature sequence (the "min" or the "max" sub-record)
temperature_stats(values, t) ==
    [average |-> RoundFrac(statistics_mean(values), t),
     median |-> RoundFrac(statistics_median(values), t),
     lowest |-> round1(SeqMin(values), 1, t),
     highest |-> round1(SeqMax(values), 1, t),
     std_dev |-> IF Len(values) > 1 THEN stdev_round1(values, t) ELSE 0]

\* the temperature summary with the deviation of the maxima reported for the
\* minima as well
temperature_summary_cruzada(min_values, max_values, t) ==
    IF min_values = <<>> \/ max_values = <<>> THEN Raise
    ELSE
        [min |-> [temperature_stats(min_values, t) EXCEPT
                     !.std_dev = temperature_stats(max_values, t).std_dev],
         max |-> temperature_stats(max_values, t),
         range |-> [lo |-> round1(SeqMin(min_values), 1, t),
                    hi |-> round1(SeqMax(max_values), 1, t)],
         typical_range |-> [lo |-> RoundFrac(statistics_mean(min_values), t),
                            hi |-> RoundFrac(statistics_mean(max_values), t)]]

temperature_summary(min_values, max_values, t) ==
    IF min_values = <<>> \/ max_values = <<>> THEN Raise
    ELSE
        [min |-> temperature_stats(min_values, t),
         max |-> temperature_stats(max_values, t),
         range |-> [lo |-> round1(SeqMin(min_values), 1, t),
                    hi |-> round1(SeqMax(max_values), 1, t)],
         typical_range |-> [lo |-> RoundFrac(statistics_mean(min_values), t),
                            hi |-> RoundFrac(statistics_mean(max_values), t)]]

\* analyze_temperature that gives up only when both sequences are empty
analyze_temperature_both(min_values, max_values, t) ==
    IF min_values = <<>> /\ max_values = <<>> THEN DatosInsuficientes
    ELSE temperature_summary(min_values, max_values, t)

\* analyze_temperature that only looks whether the minima are there
analyze_temperature_solo_min(min_values, max_values, t) ==
    IF min_values = <<>> THEN DatosInsuficientes
    ELSE temperature_summary(min_values, max_values, t)

analyze_temperature(min_values, max_values, t) ==
    IF min_values = <<>> \/ max_values = <<>> THEN DatosInsuficientes
    ELSE temperature_summary(min_values, max_values, t)

\* analyze_precipitation's summary with a day of exactly 0.1 mm counted as rainy
precipitation_summary_desde_umbral(values, t) ==
    IF values = <<>> THEN Raise
    ELSE
        LET rainy_days == SelectSeq(values, LAMBDA v : v >= Tenth)
            total_days == Len(values)
            rainy_days_count == Len(rainy_days)
            rain_probability ==
                IF total_days > 0 THEN Percentage(rainy_days_count, total_days, t) ELSE 0
            avg_when_rained ==
                IF rainy_days # <<>> THEN RoundFrac(statistics_mean(rainy_days), t) ELSE 0
        IN  [probability_of_rain |-> rain_probability,
             rainy_days |-> rainy_days_count,
             total_days_analyzed |-> total_days,
             average_when_rained |-> avg_when_rained,
             max_recorded |-> round1(SeqMax(values), 1, t),
             median_precipitation |-> RoundFrac(statistics_median(values), t),
             intensity_distribution |-> classify_precipitation_intensity(rainy_days, t),
             recommendation |-> get_rain_recommendation(rain_probability, avg_when_rained)]

precipitation_summary(values, t) ==
    IF values = <<>> THEN Raise
    ELSE
        LET rainy_days == SelectSeq(values, LAMBDA v : v > Tenth)
            total_days == Len(values)
            rainy_days_count == Len(rainy_days)
            rain_probability ==
                IF total_days > 0 THEN Percentage(rainy_days_count, total_days, t) ELSE 0
            avg_when_rained ==
                IF rainy_days # <<>> THEN RoundFrac(statistics_mean(rainy_days), t) ELSE 0
        IN  [probability_of_rain |-> rain_probability,
             rainy_days |-> rainy_days_count,
             total_days_analyzed |-> total_days,
             average_when_rained |-> avg_when_rained,
             max_recorded |-> round1(SeqMax(values), 1, t),
             median_precipitation |-> RoundFrac(statistics_median(values), t),
             intensity_distribution |-> classify_precipitation_intensity(rainy_days, t),
             recommendation |-> get_rain_recommendation(rain_probability, avg_when_rained)]

analyze_precipitation(values, t) ==
    IF values = <<>> THEN DatosInsuficientes ELSE precipitation_summary(values, t)

wind_summary(values, t) ==
    IF values = <<>> THEN Raise
    ELSE
        LET avg_speed == statistics_mean(values)
            max_speed == Exact(SeqMax(values))
        IN  [average_speed |-> RoundFrac(avg_speed, t),
             max_speed |-> RoundFrac(max_speed, t),
             median_speed |-> RoundFrac(statistics_median(values), t),
             classification |-> classify_wind_speed(avg_speed),
             max_classification |-> classify_wind_speed(max_speed),
             recommendation |-> get_wind_recommendation(avg_speed, max_speed)]

analyze_wind(values, t) ==
    IF values = <<>> THEN DatosInsuficientes ELSE wind_summary(values, t)

clouds_summary(values, t) ==
    IF values = <<>> THEN Raise
    ELSE
        LET avg_cloud == statistics_mean(values)
        IN  [average_coverage |-> RoundFrac(avg_cloud, t),
             median_coverage |-> RoundFrac(statistics_median(values), t),
             min_coverage |-> round1(SeqMin(values), 1, t),
             max_coverage |-> round1(SeqMax(values), 1, t),
             classification |-> classify_cloud_coverage(avg_cloud),
             sunny_days |-> Cardinality({i \in DOMAIN values : values[i] < 25 * Unit}),
             cloudy_days |-> Cardinality({i \in DOMAIN values : values[i] > 75 * Unit})]

analyze_clouds(values, t) ==
    IF values = <<>> THEN DatosInsuficientes ELSE clouds_summary(values, t)

uv_summary(values, t) ==
    IF values = <<>> THEN Raise
    ELSE
        LET avg_uv == statistics_mean(values)
            max_uv == Exact(SeqMax(values))
        IN  [average_index |-> RoundFrac(avg_uv, t),
             max_index |-> RoundFrac(max_uv, t),
             median_index |-> RoundFrac(statistics_median(values), t),
             risk_level |-> classify_uv_risk(avg_uv),
             max_risk_level |-> classify_uv_risk(max_uv),
             recommendation |-> get_uv_recommendation(max_uv)]

analyze_uv(values, t) ==
    IF values = <<>> THEN DatosInsuficientes ELSE uv_summary(values, t)

\* ------------------------------------------------------------------ aggregate analyzer

Channels == <<"T2M_MIN", "T2M_MAX", "WS2M", "PRECTOTCORR", "CLOUD_AMT", "ALLSKY_SFC_UV_INDEX">>

ChannelSet == {Channels[i] : i \in DOMAIN Channels}

\* sub_map.get(date_key) on a date -> value sub-map kept in key order
SubGet(sub_map, date_key) ==
    IF \E i \in DOMAIN sub_map : sub_map[i].k = date_key
    THEN sub_map[CHOOSE i \in DOMAIN sub_map : sub_map[i].k = date_key].v
    ELSE None

\* year_data.get(channel, {})
ChannelGet(year_data, channel) == Get(year_data, channel, <<>>)

NoSamples == [c \in ChannelSet |-> <<>>]

\* the six "if ... is not None: append" statements of one date key
RECURSIVE collect_date(_, _, _, _)
collect_date(acc, year_data, date_key, i) ==
    IF i > Len(Channels) THEN acc
    ELSE
        LET c == Channels[i]
            v == SubGet(ChannelGet(year_data, c), date_key)
            next == IF v # None THEN [acc EXCEPT ![c] = Append(@, v[1])] ELSE acc
        IN  collect_date(next, year_data, date_key, i + 1)

\* the date loop taken over the keys of the temperature-max sub-map instead
KeysOfYear_max(year_data) == ChannelGet(year_data, "T2M_MAX")

\* for date_key in year_data.get('T2M_MIN', {}).keys()
KeysOfYear(year_data) == ChannelGet(year_data, "T2M_MIN")

RECURSIVE collect_year(_, _, _)
collect_year(acc, year_data, j) ==
    IF j > Len(KeysOfYear(year_data)) THEN acc
    ELSE collect_year(collect_date(acc, year_data, KeysOfYear(year_data)[j].k, 1),
                      year_data, j + 1)

\* for year_data in results
RECURSIVE collect(_, _, _)
collect(acc, res, y) ==
    IF y > Len(res) THEN acc ELSE collect(collect_year(acc, res[y], 1), res, y + 1)

AnalyzerOrder ==
    <<"analyze_temperature", "analyze_precipitation", "analyze_wind",
      "analyze_clouds", "analyze_uv">>

\* ret is the value returned (or the exception raised), samples the six lists
\* built by the loop, calls the per-metric analyzers invoked
aggregate(res, t) ==
        LET s == collect(NoSamples, res, 1)
            temperature_analysis == analyze_temperature(s["T2M_MIN"], s["T2M_MAX"], t)
            precipitation_analysis == analyze_precipitation(s["PRECTOTCORR"], t)
            wind_analysis == analyze_wind(s["WS2M"], t)
            cloud_analysis == analyze_clouds(s["CLOUD_AMT"], t)
            uv_analysis == analyze_uv(s["ALLSKY_SFC_UV_INDEX"], t)
        IN  IF IsRaise(temperature_analysis) THEN [ret |-> Raise, samples |-> s, calls |-> SubSeq(AnalyzerOrder, 1, 1)]
            ELSE IF IsRaise(precipitation_analysis) THEN [ret |-> Raise, samples |-> s, calls |-> SubSeq(AnalyzerOrder, 1, 2)]
            ELSE IF IsRaise(wind_analysis) THEN [ret |-> Raise, samples |-> s, calls |-> SubSeq(AnalyzerOrder, 1, 3)]
            ELSE IF IsRaise(cloud_analysis) THEN [ret |-> Raise, samples |-> s, calls |-> SubSeq(AnalyzerOrder, 1, 4)]
            ELSE IF IsRaise(uv_analysis) THEN [ret |-> Raise, samples |-> s, calls |-> AnalyzerOrder]
            ELSE [ret |-> [temperature |-> temperature_analysis,
                           precipitation |-> precipitation_analysis,
                           wind |-> wind_analysis,
                           clouds |-> cloud_analysis,
                           uv |-> uv_analysis,
                           data_points |-> Len(res),
                           years_analyzed |-> Len(res)],
                  samples |-> s,
                  calls |-> AnalyzerOrder]

\* analyze_weather_data without its "if not results" early return
analyze_weather_data_no_guard(res, t) == aggregate(res, t)

analyze_weather_data(res, t) ==
    IF res = <<>> THEN [ret |-> NoHayDatos, samples |-> NoSamples, calls |-> <<>>]
    ELSE aggregate(res, t)

\* ------------------------------------------------------------------ recommendation engine

\* rangos: activity -> (parametro -> (min_val, max_val)), both in dict order
Regla(parametro, min_val, max_val) ==
    [parametro |-> parametro, min_val |-> min_val, max_val |-> max_val]

ActivityOrder == <<"Running", "Ciclismo", "Senderismo", "Camping", "Picnic", "Playa">>

rangos ==
    [Running |-> <<Regla("temperatura", 10, 22), Regla("viento", 0, 5), Regla("uv", 0, 6),
                   Regla("precipitacion_probabilidad", 0, 30), Regla("nubes", 0, 70)>>,
     Ciclismo |-> <<Regla("temperatura", 12, 26), Regla("viento", 0, 7), Regla("uv", 0, 7),
                    Regla("precipitacion_probabilidad", 0, 40), Regla("nubes", 0, 80)>>,
     Senderismo |-> <<Regla("temperatura", 8, 24), Regla("viento", 0, 6), Regla("uv", 0, 6),
                      Regla("precipitacion_probabilidad", 0, 30), Regla("nubes", 0, 80)>>,
     Camping |-> <<Regla("temperatura", 10, 22), Regla("viento", 0, 4), Regla("uv", 0, 7),
                   Regla("precipitacion_probabilidad", 0, 20), Regla("nubes", 0, 90)>>,
     Picnic |-> <<Regla("temperatura", 15, 28), Regla("viento", 0, 4), Regla("uv", 0, 6),
                  Regla("precipitacion_probabilidad", 0, 10), Regla("nubes", 10, 70)>>,
     Playa |-> <<Regla("temperatura", 20, 32), Regla("viento", 0, 6), Regla("uv", 3, 8),
                 Regla("precipitacion_probabilidad", 0, 10), Regla("nubes", 10, 50)>>]

\* the record with the maximum mean taken for the temperature scalar
datos_normalizados_solo_max(analytics_result, t) ==
        LET temp == Get(analytics_result, "temperature", EmptyDict)
            wind == Get(analytics_result, "wind", EmptyDict)
            precip == Get(analytics_result, "precipitation", EmptyDict)
            clouds == Get(analytics_result, "clouds", EmptyDict)
            uv == Get(analytics_result, "uv", EmptyDict)
            temp_max_avg == Get(Get(temp, "max", EmptyDict), "average", 0)
        IN  [temperatura |-> round1(temp_max_avg, 1, t),
             viento |-> Get(wind, "average_speed", 0),
             uv |-> Get(uv, "average_index", 0),
             precipitacion_probabilidad |-> Get(precip, "probability_of_rain", 0),
             nubes |-> Get(clouds, "average_coverage", 0)]

\* the record built from the five summaries (lines after the early return)
datos_normalizados(analytics_result, t) ==
        LET temp == Get(analytics_result, "temperature", EmptyDict)
            wind == Get(analytics_result, "wind", EmptyDict)
            precip == Get(analytics_result, "precipitation", EmptyDict)
            clouds == Get(analytics_result, "clouds", EmptyDict)
            uv == Get(analytics_result, "uv", EmptyDict)
            temp_min_avg == Get(Get(temp, "min", EmptyDict), "average", 0)
            temp_max_avg == Get(Get(temp, "max", EmptyDict), "average", 0)
        IN  [temperatura |-> round1(temp_min_avg + temp_max_avg, 2, t),
             viento |-> Get(wind, "average_speed", 0),
             uv |-> Get(uv, "average_index", 0),
             precipitacion_probabilidad |-> Get(precip, "probability_of_rain", 0),
             nubes |-> Get(clouds, "average_coverage", 0)]

\* extraer_datos_desde_analytics that only tests "not analytics_result"
extraer_datos_sin_error(analytics_result, t) ==
    IF analytics_result = EmptyDict THEN EmptyDict
    ELSE datos_normalizados(analytics_result, t)

extraer_datos_desde_analytics(analytics_result, t) ==
    IF analytics_result = EmptyDict \/ "error" \in DOMAIN analytics_result THEN EmptyDict
    ELSE datos_normalizados(analytics_result, t)

\* The strings the engine returns, by their template and what is formatted into it.
NoDefinida(actividad) ==
    [texto |-> "Actividad '{actividad}' no esta definida en los parametros.",
     actividad |-> actividad, recomendaciones |-> <<>>]

NoHayDatosSuficientes ==
    [texto |-> "No hay datos suficientes para realizar la evaluacion",
     actividad |-> "", recomendaciones |-> <<>>]

Recomendadas(actividad) ==
    [texto |-> "[check] Condiciones historicas recomendadas para {actividad}",
     actividad |-> actividad, recomendaciones |-> <<>>]

NoRecomendadas(actividad, recomendaciones) ==
    [texto |-> "[warning] Condiciones historicas no recomendadas para {actividad}: {...}",
     actividad |-> actividad, recomendaciones |-> recomendaciones]

\* one entry of the violation list: "{Parametro} muy bajo|alto ({valor}) para {actividad}"
Entrada(parametro, sentido, valor) ==
    [parametro |-> parametro, sentido |-> sentido, valor |-> valor]

\* the loop with the range taken as open: a value equal to a limit is a violation
RECURSIVE evaluar_reglas_abierto(_, _, _, _)
evaluar_reglas_abierto(reglas, datos, i, recomendaciones) ==
    IF i > Len(reglas) THEN recomendaciones
    ELSE
        LET r == reglas[i]
            valor == datos[r.parametro]
        IN  IF valor <= r.min_val * Unit
            THEN evaluar_reglas_abierto(reglas, datos, i + 1,
                     Append(recomendaciones, Entrada(r.parametro, "muy bajo", valor)))
            ELSE IF valor >= r.max_val * Unit
            THEN evaluar_reglas_abierto(reglas, datos, i + 1,
                     Append(recomendaciones, Entrada(r.parametro, "muy alto", valor)))
            ELSE evaluar_reglas_abierto(reglas, datos, i + 1, recomendaciones)

\* the loop left at the first violation
RECURSIVE evaluar_reglas_primera(_, _, _, _)
evaluar_reglas_primera(reglas, datos, i, recomendaciones) ==
    IF i > Len(reglas) THEN recomendaciones
    ELSE
        LET r == reglas[i]
            valor == datos[r.parametro]
        IN  IF valor < r.min_val * Unit
            THEN Append(recomendaciones, Entrada(r.parametro, "muy bajo", valor))
            ELSE IF valor > r.max_val * Unit
            THEN Append(recomendaciones, Entrada(r.parametro, "muy alto", valor))
            ELSE evaluar_reglas_primera(reglas, datos, i + 1, recomendaciones)

\* the loop over reglas.items()
RECURSIVE evaluar_reglas(_, _, _, _)
evaluar_reglas(reglas, datos, i, recomendaciones) ==
    IF i > Len(reglas) THEN recomendaciones
    ELSE
        LET r == reglas[i] IN
        IF r.parametro \notin DOMAIN datos
        THEN evaluar_reglas(reglas, datos, i + 1, recomendaciones)
        ELSE
            LET valor == datos[r.parametro] IN
            IF valor < r.min_val * Unit
            THEN evaluar_reglas(reglas, datos, i + 1,
                     Append(recomendaciones, Entrada(r.parametro, "muy bajo", valor)))
            ELSE IF valor > r.max_val * Unit
            THEN evaluar_reglas(reglas, datos, i + 1,
                     Append(recomendaciones, Entrada(r.parametro, "muy alto", valor)))
            ELSE evaluar_reglas(reglas, datos, i + 1, recomendaciones)

\* evaluar_actividad_con_analytics that looks at the data before the activity name
evaluar_actividad_datos_primero(analytics_result, actividad, t) ==
    LET datos == extraer_datos_desde_analytics(analytics_result, t) IN
    IF datos = EmptyDict THEN NoHayDatosSuficientes
    ELSE IF actividad \notin DOMAIN rangos THEN NoDefinida(actividad)
    ELSE
        LET recomendaciones == evaluar_reglas(rangos[actividad], datos, 1, <<>>) IN
        IF recomendaciones = <<>> THEN Recomendadas(actividad)
        ELSE NoRecomendadas(actividad, recomendaciones)

evaluar_actividad_con_analytics(analytics_result, actividad, t) ==
    IF actividad \notin DOMAIN rangos THEN NoDefinida(actividad)
    ELSE
        LET datos == extraer_datos_desde_analytics(analytics_result, t) IN
        IF datos = EmptyDict THEN NoHayDatosSuficientes
        ELSE
            LET recomendaciones == evaluar_reglas(rangos[actividad], datos, 1, <<>>) IN
            IF recomendaciones = <<>> THEN Recomendadas(actividad)
            ELSE NoRecomendadas(actividad, recomendaciones)

\* An activity name that itself holds the check mark character (written
\* "U+2705" here).
NombresConCheck == {"U+2705 Surf"}

\* "[check]" in resultado: the mark is in the template of Recomendadas, or in
\* the activity name the template echoes
ContieneCheck(resultado) ==
    \/ resultado = Recomendadas(resultado.actividad)
    \/ resultado.actividad \in NombresConCheck

SeqToSet(s) == {s[i] : i \in DOMAIN s}

\* actividades is None (<<>>) or Some(list) (<<list>>)
obtener_recomendaciones_multiples(analytics_result, actividades, t) ==
    LET lista == IF actividades = None THEN ActivityOrder ELSE actividades[1]
        datos == extraer_datos_desde_analytics(analytics_result, t)
    IN  IF datos = EmptyDict
        THEN [error |-> "No hay datos suficientes para realizar evaluaciones"]
        ELSE
            LET resultados == [act \in SeqToSet(lista) |->
                                  evaluar_actividad_con_analytics(analytics_result, act, t)]
                actividades_recomendadas ==
                    SelectSeq(lista, LAMBDA act : ContieneCheck(resultados[act]))
                mejor_actividad ==
                    IF actividades_recomendadas # <<>>
                    THEN Some(actividades_recomendadas[1]) ELSE None
            IN  [datos_utilizados |-> datos,
                 recomendaciones |-> resultados,
                 mejor_opcion |-> mejor_actividad,
                 resumen |-> [recomendables |-> Len(actividades_recomendadas),
                              de |-> Len(lista)]]

\* ------------------------------------------------------------------ inputs

\* The value of channel c at the d-th date of the y-th lookback year: distinct
\* per (channel, year, date), so that a collected sample tells where it came from.
Base ==
    [T2M_MIN |-> 10 * Unit, T2M_MAX |-> 20 * Unit, WS2M |-> 3 * Unit,
     PRECTOTCORR |-> 4 * 10, CLOUD_AMT |-> 40 * Unit, ALLSKY_SFC_UV_INDEX |-> 5 * Unit]

Val(c, y, d) == Base[c] + Tenth * (y - 1) + 10 * d

Entry(date_key, v) == [k |-> date_key, v |-> v]

Shapes == {"absent", "one", "null_first", "reversed"}
RestShapes == {"absent", "full"}

\* the date -> value sub-map of channel c in year y, by shape
SubMap(c, y, shape) ==
    CASE shape = "one" -> <<Entry("d1", Some(Val(c, y, 1)))>>
      [] shape = "null_first" -> <<Entry("d1", None), Entry("d2", Some(Val(c, y, 2)))>>
      [] shape = "reversed" ->
            <<Entry("d2", Some(Val(c, y, 2))), Entry("d1", Some(Val(c, y, 1)))>>
      [] shape = "full" ->
            <<Entry("d1", Some(Val(c, y, 1))), Entry("d2", Some(Val(c, y, 2)))>>

\* one year's parameter map: T2M_MIN has shape m, channel f has shape sf, every
\* other channel has shape r; a channel of shape "absent" is not a key of the map
YearMap(y, m, f, sf, r) ==
    LET shapeOf(c) == IF c = "T2M_MIN" THEN m ELSE IF c = f THEN sf ELSE r
    IN  [c \in {x \in ChannelSet : shapeOf(x) # "absent"} |-> SubMap(c, y, shapeOf(c))]

Ties == {"down", "up"}

\* with the rules that send neighbouring halfway values to opposite sides
TieRules == Ties \cup {"even", "odd"}

\* ------------------------------------------------------------------ operations

Idle ==
    /\ arg_actividad = ""
    /\ evaluacion = EmptyDict
    /\ arg_actividades = None
    /\ multiples = EmptyDict

\* no weather endpoint has been requested
NoSvc ==
    /\ req_endpoint = ""
    /\ req_day = None
    /\ req_activity = ""
    /\ req_format = ""
    /\ fetch_i = 0
    /\ fetch_queries = <<>>
    /\ fetch_results = <<>>
    /\ fetch_outcome = None
    /\ http_status = 0

\* no caller is running next to this one
NoPar ==
    /\ tabla = rangos
    /\ par_call = <<>>
    /\ par_pc = <<>>
    /\ par_i = <<>>
    /\ par_res = <<>>
    /\ par_ret = <<>>

\* no per-metric analyzer has been called on its own
NoStats ==
    /\ stat_metric = ""
    /\ stat_values = <<>>
    /\ stat_max_values = <<>>
    /\ stat_summary = EmptyDict

\* A request: a raw sample set has been fetched and nothing has been computed.
Init ==
    /\ \E n \in 0..MaxYears, f \in ChannelSet \ {"T2M_MIN"}, r \in RestShapes :
         \E ms \in [1..n -> Shapes], ss \in [1..n -> Shapes] :
            results = [y \in 1..n |-> YearMap(y, ms[y], f, ss[y], r)]
    /\ tie \in Ties
    /\ analytics = EmptyDict
    /\ samples = NoSamples
    /\ calls = <<>>
    /\ Idle
    /\ NoStats
    /\ NoPar
    /\ NoSvc
    /\ pc = "fetched"

AnalyzeWeatherData ==
    /\ pc = "fetched"
    /\ \E out \in {analyze_weather_data(results, tie)} :
         /\ analytics' = out.ret
         /\ samples' = out.samples
         /\ calls' = out.calls
         /\ pc' = IF IsRaise(out.ret) THEN "raised" ELSE "analyzed"
    /\ UNCHANGED <<results, arg_actividad, evaluacion, arg_actividades, multiples, tie, stats,
                   par, svc>>

EvaluarActividad(actividad) ==
    /\ pc = "analyzed"
    /\ arg_actividad' = actividad
    /\ evaluacion' = evaluar_actividad_con_analytics(analytics, actividad, tie)
    /\ pc' = "evaluated"
    /\ UNCHANGED <<results, analytics, samples, calls, arg_actividades, multiples, tie,
                   stats, par, svc>>

ObtenerRecomendaciones(lista) ==
    /\ pc = "analyzed"
    /\ arg_actividades' = lista
    /\ multiples' = obtener_recomendaciones_multiples(analytics, lista, tie)
    /\ pc' = "recommended"
    /\ UNCHANGED <<results, analytics, samples, calls, arg_actividad, evaluacion, tie,
                   stats, par, svc>>

Next == AnalyzeWeatherData

Spec == Init /\ [][Next]_vars


\* ------------------------------------------------------------------ the engine alone

\* Analytics records handed to the recommendation engine: the top-level error
\* record, an empty record, and records whose metric summaries are the error
\* marker, lack the field the engine reads, or carry a one-decimal average.
TempMinAverages == {5 * Unit, 10 * Unit}
TempMaxAverages == {10 * Unit, 20 * Unit, 34 * Unit + Tenth}
WindAverages == {4 * Unit, 5 * Unit + Tenth}
UvAverages == {3 * Unit, 7 * Unit + Tenth}
RainProbabilities == {10 * Unit, 30 * Unit + Tenth}
CloudAverages == {5 * Unit, 10 * Unit, 70 * Unit + Tenth}

TemperatureSummaries ==
    {DatosInsuficientes, [min |-> EmptyDict, max |-> [average |-> 20 * Unit]]}
    \cup {[min |-> [average |-> a], max |-> [average |-> b]] :
             a \in TempMinAverages, b \in TempMaxAverages}

WindSummaries == {DatosInsuficientes, EmptyDict} \cup {[average_speed |-> x] : x \in WindAverages}
UvSummaries == {DatosInsuficientes, EmptyDict} \cup {[average_index |-> x] : x \in UvAverages}
PrecipitationSummaries ==
    {DatosInsuficientes, EmptyDict} \cup {[probability_of_rain |-> x] : x \in RainProbabilities}
CloudSummaries ==
    {DatosInsuficientes} \cup {[average_coverage |-> x] : x \in CloudAverages}

AnalyticsRecords ==
    {NoHayDatos, EmptyDict}
    \cup {[temperature |-> te, precipitation |-> pr, wind |-> wi, clouds |-> cl, uv |-> u,
           data_points |-> 1, years_analyzed |-> 1] :
             te \in TemperatureSummaries, pr \in PrecipitationSummaries,
             wi \in WindSummaries, cl \in CloudSummaries, u \in UvSummaries}

\* names a caller may pass: the configured activities, one that is not
\* configured, and one that is not configured and holds the check mark
ActivityNames == SeqToSet(ActivityOrder) \cup {"Yoga"} \cup NombresConCheck

ActivityLists ==
    {None, Some(<<>>), Some(<<"Playa", "Running">>), Some(<<"Running", "Yoga", "Picnic">>),
     Some(<<"U+2705 Surf", "Camping">>), Some(<<"Senderismo", "Ciclismo", "Senderismo">>)}

InitRec ==
    /\ analytics \in AnalyticsRecords
    /\ tie \in Ties
    /\ results = <<>>
    /\ samples = NoSamples
    /\ calls = <<>>
    /\ Idle
    /\ NoStats
    /\ NoPar
    /\ NoSvc
    /\ pc = "analyzed"

NextRec ==
    \/ \E actividad \in ActivityNames : EvaluarActividad(actividad)
    \/ \E lista \in ActivityLists : ObtenerRecomendaciones(lista)

SpecRec == InitRec /\ [][NextRec]_vars

\* ------------------------------------------------------------------ the analyzers alone

\* Sample sequences handed to one per-metric analyzer: every sequence of at
\* most MaxLen samples over values that sit on, just below and just above the
\* thresholds the analyzer compares with.
Seqs(S, n) == UNION {[1..k -> S] : k \in 0..n}

WindValues ==
    {2 * Unit - 1, 2 * Unit, 5 * Unit - 1, 5 * Unit, 10 * Unit, 10 * Unit + 1,
     15 * Unit, 15 * Unit + 1}
CloudValues ==
    {25 * Unit - 1, 25 * Unit, 50 * Unit - 1, 50 * Unit, 75 * Unit - 1, 75 * Unit}
UvValues ==
    {3 * Unit - 1, 3 * Unit, 6 * Unit - 1, 6 * Unit, 8 * Unit - 1, 8 * Unit,
     11 * Unit - 1, 11 * Unit}
PrecipValues ==
    {0, Tenth, Tenth + 1, 2 * Unit, 10 * Unit, 20 * Unit + 40, 30 * Unit - 1, 30 * Unit}
TempMinValues == {0 - 150, 0 - 50, Tenth}
TempMaxValues == {20 * Unit - 50, 20 * Unit, 20 * Unit + 150}

\* the sequences of ten daily rain amounts, each dry or 5 mm
ExampleDays == 2 * 5
TenDaySeqs == [1..ExampleDays -> {0, 5 * Unit}]

InitStats ==
    /\ \/ stat_metric = "temperature"
          /\ stat_values \in Seqs(TempMinValues, MaxLen)
          /\ stat_max_values \in Seqs(TempMaxValues, MaxLen)
       \/ stat_metric = "precipitation"
          /\ stat_values \in Seqs(PrecipValues, MaxLen) \cup TenDaySeqs
          /\ stat_max_values = <<>>
       \/ stat_metric = "wind"
          /\ stat_values \in Seqs(WindValues, MaxLen)
          /\ stat_max_values = <<>>
       \/ stat_metric = "clouds"
          /\ stat_values \in Seqs(CloudValues, MaxLen)
          /\ stat_max_values = <<>>
       \/ stat_metric = "uv"
          /\ stat_values \in Seqs(UvValues, MaxLen)
          /\ stat_max_values = <<>>
    /\ stat_summary = EmptyDict
    /\ tie \in TieRules
    /\ results = <<>>
    /\ analytics = EmptyDict
    /\ samples = NoSamples
    /\ calls = <<>>
    /\ NoPar
    /\ NoSvc
    /\ Idle
    /\ pc = "sampled"

\* the analyzer returned (or raised): the frame of every analyzer call
Summarized(out) ==
    /\ stat_summary' = out
    /\ pc' = IF IsRaise(out) THEN "raised" ELSE "summarized"
    /\ UNCHANGED <<results, analytics, samples, calls, arg_actividad, evaluacion,
                   arg_actividades, multiples, tie, stat_metric, stat_values,
                   stat_max_values, par, svc>>

AnalyzeTemperature ==
    /\ pc = "sampled" /\ stat_metric = "temperature"
    /\ \E out \in {analyze_temperature(stat_values, stat_max_values, tie)} : Summarized(out)

AnalyzePrecipitation ==
    /\ pc = "sampled" /\ stat_metric = "precipitation"
    /\ \E out \in {analyze_precipitation(stat_values, tie)} : Summarized(out)

AnalyzeWind ==
    /\ pc = "sampled" /\ stat_metric = "wind"
    /\ \E out \in {analyze_wind(stat_values, tie)} : Summarized(out)

AnalyzeClouds ==
    /\ pc = "sampled" /\ stat_metric = "clouds"
    /\ \E out \in {analyze_clouds(stat_values, tie)} : Summarized(out)

AnalyzeUv ==
    /\ pc = "sampled" /\ stat_metric = "uv"
    /\ \E out \in {analyze_uv(stat_values, tie)} : Summarized(out)

NextStats ==
    \/ AnalyzeTemperature
    \/ AnalyzePrecipitation
    \/ AnalyzeWind
    \/ AnalyzeClouds
    \/ AnalyzeUv

SpecStats == InitStats /\ [][NextStats]_vars


\* ------------------------------------------------------------------ callers side by side

\* the evaluation of one activity as a call reads the table at that moment
evaluar_en(tab, analytics_result, actividad, t) ==
    IF actividad \notin DOMAIN tab THEN NoDefinida(actividad)
    ELSE
        LET datos == extraer_datos_desde_analytics(analytics_result, t) IN
        IF datos = EmptyDict THEN NoHayDatosSuficientes
        ELSE
            LET recomendaciones == evaluar_reglas(tab[actividad], datos, 1, <<>>) IN
            IF recomendaciones = <<>> THEN Recomendadas(actividad)
            ELSE NoRecomendadas(actividad, recomendaciones)

\* the two strings of evaluar_clima
ClimaRecomendado(actividad) ==
    [texto |-> "[check] Clima recomendado para {actividad}",
     actividad |-> actividad, recomendaciones |-> <<>>]

ClimaNoRecomendado(actividad, recomendaciones) ==
    [texto |-> "[warning] Clima no recomendado para {actividad}: {...}",
     actividad |-> actividad, recomendaciones |-> recomendaciones]

evaluar_clima_en(tab, valores, actividad) ==
    IF actividad \notin DOMAIN tab THEN NoDefinida(actividad)
    ELSE
        LET recomendaciones == evaluar_reglas(tab[actividad], valores, 1, <<>>) IN
        IF recomendaciones = <<>> THEN ClimaRecomendado(actividad)
        ELSE ClimaNoRecomendado(actividad, recomendaciones)

evaluar_clima(valores, actividad) == evaluar_clima_en(rangos, valores, actividad)

\* the callers running at the same time
MaxCallers == 2
Callers == 1..MaxCallers

\* The calls a caller may make: a record every activity but Playa
\* accepts, one every activity rejects, and the top-level error record; a
\* partial dict of plain values; an empty and a one-year raw sample set.
RegistroBueno ==
    [temperature |-> [min |-> [average |-> 10 * Unit], max |-> [average |-> 20 * Unit]],
     precipitation |-> [probability_of_rain |-> 10 * Unit],
     wind |-> [average_speed |-> 4 * Unit],
     clouds |-> [average_coverage |-> 10 * Unit],
     uv |-> [average_index |-> 3 * Unit],
     data_points |-> 1, years_analyzed |-> 1]

RegistroMalo ==
    [RegistroBueno EXCEPT !.wind = [average_speed |-> 9 * Unit],
                          !.uv = [average_index |-> 9 * Unit]]

ValoresSimples == [temperatura |-> 25 * Unit, viento |-> 4 * Unit, uv |-> 9 * Unit]

ParCalls ==
    {[kind |-> "multiples", analytics |-> r, actividades |-> l] :
        r \in {RegistroBueno, NoHayDatos}, l \in {None, Some(<<"Playa", "Running">>)}}
    \cup {[kind |-> "actividad", analytics |-> RegistroBueno, actividad |-> "Running"],
          [kind |-> "actividad", analytics |-> RegistroMalo, actividad |-> "Running"],
          [kind |-> "actividad", analytics |-> RegistroBueno, actividad |-> "Yoga"]}
    \cup {[kind |-> "clima", valores |-> ValoresSimples, actividad |-> "Playa"],
          [kind |-> "clima", valores |-> EmptyDict, actividad |-> "Running"],
          [kind |-> "clima", valores |-> ValoresSimples, actividad |-> "Yoga"]}
    \cup {[kind |-> "analyze", results |-> rs] :
             rs \in {<<>>, <<YearMap(1, "one", "WS2M", "one", "full")>>}}

InitPar ==
    /\ tabla = rangos
    /\ par_call \in [Callers -> ParCalls]
    /\ par_pc = [p \in Callers |-> "called"]
    /\ par_i = [p \in Callers |-> 0]
    /\ par_res = [p \in Callers |-> EmptyDict]
    /\ par_ret = [p \in Callers |-> EmptyDict]
    /\ tie \in Ties
    /\ results = <<>>
    /\ analytics = EmptyDict
    /\ samples = NoSamples
    /\ calls = <<>>
    /\ Idle
    /\ NoStats
    /\ NoSvc
    /\ pc = "serving"

\* the arguments caller p passed
ArgumentsOf_first(p) == par_call[1]
ArgumentsOf(p) == par_call[p]

\* the list caller p iterates over
ListaDe(p) ==
    IF ArgumentsOf(p).actividades = None THEN ActivityOrder
    ELSE ArgumentsOf(p).actividades[1]

\* what no step of any call touches, and the variables of the other pipelines
ParFrame ==
    UNCHANGED <<tabla, par_call, results, analytics, samples, calls, arg_actividad,
                evaluacion, arg_actividades, multiples, tie, stats, svc, pc>>

\* caller p returns ret
Return(p, ret) ==
    /\ par_ret' = [par_ret EXCEPT ![p] = ret]
    /\ par_pc' = [par_pc EXCEPT ![p] = "returned"]

\* obtener_recomendaciones_multiples up to the loop
EmpezarMultiples(p) ==
    /\ par_pc[p] = "called" /\ ArgumentsOf(p).kind = "multiples"
    /\ IF extraer_datos_desde_analytics(ArgumentsOf(p).analytics, tie) = EmptyDict
       THEN /\ Return(p, [error |-> "No hay datos suficientes para realizar evaluaciones"])
            /\ UNCHANGED <<par_i, par_res>>
       ELSE /\ par_pc' = [par_pc EXCEPT ![p] = "looping"]
            /\ par_i' = [par_i EXCEPT ![p] = 1]
            /\ par_res' = [par_res EXCEPT ![p] = EmptyDict]
            /\ UNCHANGED par_ret
    /\ ParFrame

\* one iteration of its loop: resultados[actividad] = evaluar_actividad_con_analytics(...)
IterarMultiples(p) ==
    /\ par_pc[p] = "looping" /\ par_i[p] <= Len(ListaDe(p))
    /\ LET actividad == ListaDe(p)[par_i[p]]
           resultado == evaluar_en(tabla, ArgumentsOf(p).analytics, actividad, tie)
       IN  par_res' = [par_res EXCEPT ![p] =
               [act \in DOMAIN par_res[p] \cup {actividad} |->
                   IF act = actividad THEN resultado ELSE par_res[p][act]]]
    /\ par_i' = [par_i EXCEPT ![p] = par_i[p] + 1]
    /\ UNCHANGED <<par_pc, par_ret>>
    /\ ParFrame

\* after the loop: the best option, the summary, the return
TerminarMultiples(p) ==
    /\ par_pc[p] = "looping" /\ par_i[p] > Len(ListaDe(p))
    /\ LET actividades_recomendadas ==
               SelectSeq(ListaDe(p), LAMBDA act : ContieneCheck(par_res[p][act]))
       IN  Return(p, [datos_utilizados |->
                          extraer_datos_desde_analytics(ArgumentsOf(p).analytics, tie),
                      recomendaciones |-> par_res[p],
                      mejor_opcion |-> IF actividades_recomendadas # <<>>
                                       THEN Some(actividades_recomendadas[1]) ELSE None,
                      resumen |-> [recomendables |-> Len(actividades_recomendadas),
                                   de |-> Len(ListaDe(p))]])
    /\ UNCHANGED <<par_i, par_res>>
    /\ ParFrame

LlamarEvaluarActividad(p) ==
    /\ par_pc[p] = "called" /\ ArgumentsOf(p).kind = "actividad"
    /\ Return(p, evaluar_en(tabla, ArgumentsOf(p).analytics, ArgumentsOf(p).actividad, tie))
    /\ UNCHANGED <<par_i, par_res>>
    /\ ParFrame

LlamarEvaluarClima(p) ==
    /\ par_pc[p] = "called" /\ ArgumentsOf(p).kind = "clima"
    /\ Return(p, evaluar_clima_en(tabla, ArgumentsOf(p).valores, ArgumentsOf(p).actividad))
    /\ UNCHANGED <<par_i, par_res>>
    /\ ParFrame

LlamarAnalyzeWeatherData(p) ==
    /\ par_pc[p] = "called" /\ ArgumentsOf(p).kind = "analyze"
    /\ Return(p, analyze_weather_data(ArgumentsOf(p).results, tie).ret)
    /\ UNCHANGED <<par_i, par_res>>
    /\ ParFrame

NextPar ==
    \E p \in Callers :
        \/ EmpezarMultiples(p)
        \/ IterarMultiples(p)
        \/ TerminarMultiples(p)
        \/ LlamarEvaluarActividad(p)
        \/ LlamarEvaluarClima(p)
        \/ LlamarAnalyzeWeatherData(p)

SpecPar == InitPar /\ [][NextPar]_vars

\* ------------------------------------------------------------------ the weather service

\* datetime.date: a record [y, m, d]; the constructor and replace() raise
\* ValueError unless 1 <= y <= 9999 and the day exists in that month
IsLeap(y) == y % 4 = 0 /\ (y % 100 # 0 \/ y % 400 = 0)

DaysIn(y, m) ==
    IF m = 2 THEN (IF IsLeap(y) THEN 29 ELSE 28)
    ELSE IF m \in {4, 6, 9, 11} THEN 30 ELSE 31

ValidDate(y, m, d) == y \in 1..9999 /\ m \in 1..12 /\ d \in 1..DaysIn(y, m)

Date(y, m, d) == [y |-> y, m |-> m, d |-> d]

\* for i in range(1, 30)
RangeStop == 30

\* The query date of iteration i: parsed_day.replace(year=year) and, when that
\* raises ValueError, date(year, month, day - 1); None when this raises too.
query_date(parsed_day, i) ==
    LET year == parsed_day.y - i
    IN  IF ValidDate(year, parsed_day.m, parsed_day.d)
        THEN Some(Date(year, parsed_day.m, parsed_day.d))
        ELSE IF ValidDate(year, parsed_day.m, parsed_day.d - 1)
        THEN Some(Date(year, parsed_day.m, parsed_day.d - 1))
        ELSE None

Raised(exception) == [raised |-> exception]
ReturnValue(value) == [returned |-> value]

\* what the provider does with one request: it answers with the parameter map,
\* the request fails (timeout, connection, HTTP error status), or it answers
\* with a body that has no properties.parameter
ProviderOutcomes == {"ok", "RequestException", "malformed"}

\* resp['properties']['parameter'] of the answer to the request for a date
ParameterMap(date) == [date |-> date]

\* The day parameters: a string strptime rejects (None), leap days whose
\* lookback crosses 2000 and 2100, plain days, and days of the years 30 and 29.
ReqDays ==
    {None, Some(Date(2024, 2, 29)), Some(Date(2104, 2, 29)), Some(Date(2025, 3, 1)),
     Some(Date(2024, 12, 31)), Some(Date(30, 1, 1)), Some(Date(29, 6, 15))}

Endpoints == {"/forecast", "/recommendations", "/forecast/download"}

InitSvc ==
    /\ req_endpoint \in Endpoints
    /\ req_day \in ReqDays
    /\ req_activity \in {"", "hiking"}
    /\ req_format \in IF req_endpoint = "/forecast/download" THEN {"json", "csv"} ELSE {""}
    /\ fetch_i = 0
    /\ fetch_queries = <<>>
    /\ fetch_results = <<>>
    /\ fetch_outcome = None
    /\ http_status = 0
    /\ tie = "down"
    /\ results = <<>>
    /\ analytics = EmptyDict
    /\ samples = NoSamples
    /\ calls = <<>>
    /\ Idle
    /\ NoStats
    /\ NoPar
    /\ pc = "requested"

SvcFrame ==
    UNCHANGED <<req_endpoint, req_day, req_activity, req_format, http_status, results,
                analytics, samples, calls, arg_actividad, evaluacion, arg_actividades,
                multiples, tie, stats, par>>

\* get_weather_for leaves with an exception or a value
Leave(outcome) ==
    /\ fetch_outcome' = outcome
    /\ pc' = "finished"

\* get_weather_for, steps 1 to 3: the day, the place (the endpoints pass a
\* dict or a string, which both pass), the activity
Validate ==
    /\ pc = "requested"
    /\ IF req_day = None \/ req_activity = ""
       THEN Leave(Raised("ValidationError")) /\ UNCHANGED fetch_i
       ELSE /\ fetch_i' = 1
            /\ pc' = "looping"
            /\ UNCHANGED fetch_outcome
    /\ UNCHANGED <<fetch_queries, fetch_results>>
    /\ SvcFrame

\* one iteration of the loop: the query date, the request, the append
FetchYear ==
    /\ pc = "looping" /\ fetch_i < RangeStop
    /\ \E qd \in {query_date(req_day[1], fetch_i)} :
         IF qd = None
         THEN /\ Leave(Raised("ValueError"))
              /\ UNCHANGED <<fetch_i, fetch_queries, fetch_results>>
         ELSE \E o \in ProviderOutcomes :
                /\ fetch_queries' = Append(fetch_queries, [date |-> qd[1], outcome |-> o])
                /\ CASE o = "ok" ->
                          /\ fetch_results' = Append(fetch_results, ParameterMap(qd[1]))
                          /\ fetch_i' = fetch_i + 1
                          /\ UNCHANGED <<fetch_outcome, pc>>
                     [] o = "RequestException" ->
                          /\ Leave(Raised("ExternalAPIError"))
                          /\ UNCHANGED <<fetch_i, fetch_results>>
                     [] o = "malformed" ->
                          /\ Leave(Raised("KeyError"))
                          /\ UNCHANGED <<fetch_i, fetch_results>>
    /\ SvcFrame

\* after the loop: return {'weather': {'data': results}}
ReturnResults ==
    /\ pc = "looping" /\ fetch_i >= RangeStop
    /\ Leave(ReturnValue([weather |-> [data |-> fetch_results]]))
    /\ UNCHANGED <<fetch_i, fetch_queries, fetch_results>>
    /\ SvcFrame

\* the except clauses of /forecast and of /recommendations
status_with_503(outcome) ==
    IF "returned" \in DOMAIN outcome THEN 200
    ELSE IF outcome.raised = "ValidationError" THEN 400
    ELSE IF outcome.raised = "ExternalAPIError" THEN 503
    ELSE 500

\* /forecast/download: convert_to_csv reads data['metadata'], which the result
\* does not have (KeyError); the except clauses are ValidationError and Exception
status_download(outcome, format) ==
    IF "returned" \in DOMAIN outcome THEN (IF format = "csv" THEN 500 ELSE 200)
    ELSE IF outcome.raised = "ValidationError" THEN 400
    ELSE 500

Answer(status) ==
    /\ http_status' = status
    /\ pc' = "responded"
    /\ UNCHANGED <<req_endpoint, req_day, req_activity, req_format, fetch_i,
                   fetch_queries, fetch_results, fetch_outcome, results, analytics,
                   samples, calls, arg_actividad, evaluacion, arg_actividades,
                   multiples, tie, stats, par>>

get_weather_forecast ==
    /\ pc = "finished" /\ req_endpoint = "/forecast"
    /\ Answer(status_with_503(fetch_outcome))

get_forecast ==
    /\ pc = "finished" /\ req_endpoint = "/recommendations"
    /\ Answer(status_with_503(fetch_outcome))

download_weather_data ==
    /\ pc = "finished" /\ req_endpoint = "/forecast/download"
    /\ Answer(status_download(fetch_outcome, req_format))

NextSvc ==
    \/ Validate
    \/ FetchYear
    \/ ReturnResults
    \/ get_weather_forecast
    \/ get_forecast
    \/ download_weather_data

SpecSvc == InitSvc /\ [][NextSvc]_vars

\* ------------------------------------------------------------------ properties: aggregate analyzer

Summaries == {"temperature", "precipitation", "wind", "clouds", "uv"}

Returned == pc # "fetched"

\* C1: analyze_weather_data on an empty list of per-year maps returns the single
\* top-level error record (an error field, none of the five summaries), invokes
\* no per-metric analyzer and does not raise.
C1_EmptyInputGivesErrorRecord ==
    (Returned /\ results = <<>>) =>
        /\ pc = "analyzed"
        /\ "error" \in DOMAIN analytics
        /\ DOMAIN analytics \cap Summaries = {}
        /\ calls = <<>>

C1_Witness == pc = "analyzed" /\ results = <<>>

\* C2: for a non-empty raw sample set the call returns (it does not raise) a
\* record whose summary of a metric is the error marker exactly when that
\* metric's own sample sequence is empty (temperature: when its min or its max
\* sequence is empty), whatever the sibling sequences hold.
C2_MetricsFailIndependently ==
    (Returned /\ results # <<>>) =>
        /\ pc = "analyzed"
        /\ Summaries \subseteq DOMAIN analytics
        /\ IsError(analytics.temperature)
             <=> (samples["T2M_MIN"] = <<>> \/ samples["T2M_MAX"] = <<>>)
        /\ IsError(analytics.precipitation) <=> samples["PRECTOTCORR"] = <<>>
        /\ IsError(analytics.wind) <=> samples["WS2M"] = <<>>
        /\ IsError(analytics.clouds) <=> samples["CLOUD_AMT"] = <<>>
        /\ IsError(analytics.uv) <=> samples["ALLSKY_SFC_UV_INDEX"] = <<>>

\* one metric without samples beside siblings with samples
C2_Witness ==
    /\ pc = "analyzed"
    /\ results # <<>>
    /\ samples["T2M_MAX"] = <<>>
    /\ samples["T2M_MIN"] # <<>>
    /\ IsError(analytics.temperature)
    /\ ~IsError(analytics.wind)
    /\ ~IsError(analytics.uv)

\* The raw sample set with channel c of year y present with a value at both dates.
WithChannelPresent(res, y, c) ==
    [res EXCEPT ![y] = [x \in DOMAIN res[y] \cup {c} |->
                           IF x = c THEN SubMap(c, y, "full") ELSE res[y][x]]]

\* The raw sample set with the null values of channel c in year y replaced by numbers.
WithoutNulls(res, y, c) ==
    [res EXCEPT ![y][c] = [i \in DOMAIN @ |->
                              IF @[i].v = None THEN Entry(@[i].k, Some(Val(c, y, i))) ELSE @[i]]]

\* C3: a channel c (temperature-min included) missing from a year's map, or
\* null at some date, only removes samples from c's own sequence: every other
\* channel's collected samples are what they are with c present.
C3_AbsenceOnlyAffectsOwnChannel ==
    pc = "analyzed" =>
        \A y \in DOMAIN results : \A c \in ChannelSet : \A other \in ChannelSet \ {c} :
            /\ c \notin DOMAIN results[y] =>
                 samples[other]
                    = collect(NoSamples, WithChannelPresent(results, y, c), 1)[other]
            /\ c \in DOMAIN results[y] =>
                 samples[other] = collect(NoSamples, WithoutNulls(results, y, c), 1)[other]

\* The non-null values of channel c at the date keys of the year's
\* temperature-min sub-map, in the order of those keys.
ExpectedOfYear(year_data, c) ==
    LET tmin == IF "T2M_MIN" \in DOMAIN year_data THEN year_data["T2M_MIN"] ELSE <<>>
        sub == IF c \in DOMAIN year_data THEN year_data[c] ELSE <<>>
        at(i) == {j \in DOMAIN sub : sub[j].k = tmin[i].k /\ sub[j].v # None}
        hits == SelectSeq([i \in DOMAIN tmin |-> i], LAMBDA i : at(i) # {})
    IN  [n \in DOMAIN hits |-> sub[CHOOSE j \in at(hits[n]) : TRUE].v[1]]

RECURSIVE Expected(_, _)
Expected(res, c) ==
    IF res = <<>> THEN <<>> ELSE ExpectedOfYear(Head(res), c) \o Expected(Tail(res), c)

\* C4: each of the six sample sequences is exactly the channel's non-null values
\* at the date keys of each year's temperature-min sub-map, in input year order
\* and, within a year, in the order of the temperature-min keys; a value at a
\* date the temperature-min sub-map lacks is not collected.
C4_SamplesFollowTempMinKeys ==
    (Returned /\ results # <<>>) =>
        \A c \in ChannelSet : samples[c] = Expected(results, c)

\* two years, temperature-min keys in the order d2, d1 in some year, and a value
\* of another channel left out because temperature-min lacks its date
C4_Witness ==
    /\ pc = "analyzed"
    /\ Len(results) = 2
    /\ \E y \in DOMAIN results :
          "T2M_MIN" \in DOMAIN results[y] /\ results[y]["T2M_MIN"][1].k = "d2"
    /\ \E y \in DOMAIN results : \E c \in DOMAIN results[y] \ {"T2M_MIN"} :
          \E i \in DOMAIN results[y][c] :
             /\ results[y][c][i].v # None
             /\ results[y][c][i].v[1] \notin SeqToSet(samples[c])
             /\ Len(samples[c]) >= 2

\* ------------------------------------------------------------------ properties: recommendation engine

\* a non-error analytics record
RecordOk == analytics # EmptyDict /\ ~IsError(analytics)

Configured(actividad) == actividad \in DOMAIN rangos

\* the five derived scalars of the record
Datos == extraer_datos_desde_analytics(analytics, tie)

Dimensions == <<"temperatura", "viento", "uv", "precipitacion_probabilidad", "nubes">>

\* the range the activity's profile gives a dimension
ReglaDe(actividad, parametro) ==
    LET reglas == rangos[actividad]
    IN  reglas[CHOOSE i \in DOMAIN reglas : reglas[i].parametro = parametro]

MuyBajo(actividad, parametro) ==
    Datos[parametro] < ReglaDe(actividad, parametro).min_val * Unit

MuyAlto(actividad, parametro) ==
    Datos[parametro] > ReglaDe(actividad, parametro).max_val * Unit

\* the metric summary behind a dimension is an error marker or lacks its average
Unavailable(parametro) ==
    LET lacks(summary, field) == IsError(summary) \/ field \notin DOMAIN summary
    IN  CASE parametro = "temperatura" ->
                \/ IsError(analytics.temperature)
                \/ "average" \notin DOMAIN Get(analytics.temperature, "min", EmptyDict)
                \/ "average" \notin DOMAIN Get(analytics.temperature, "max", EmptyDict)
          [] parametro = "viento" -> lacks(analytics.wind, "average_speed")
          [] parametro = "uv" -> lacks(analytics.uv, "average_index")
          [] parametro = "precipitacion_probabilidad" ->
                lacks(analytics.precipitation, "probability_of_rain")
          [] parametro = "nubes" -> lacks(analytics.clouds, "average_coverage")

Violations == evaluacion.recomendaciones

\* C5: for a non-error record, a dimension whose scalar is unavailable is
\* skipped: the evaluation holds no violation for it.
C5_UnavailableDimensionIsSkipped ==
    (pc = "evaluated" /\ Configured(arg_actividad) /\ RecordOk) =>
        \A d \in DOMAIN Dimensions :
            Unavailable(Dimensions[d]) =>
                \A i \in DOMAIN Violations : Violations[i].parametro # Dimensions[d]

\* C6: for the top-level error record, or an empty record, the evaluation of a
\* configured activity is the "insufficient data" result, never a verdict, and
\* the multi-activity result is the error marker without per-activity verdicts.
C6_ErrorRecordGivesInsufficientData ==
    (analytics = EmptyDict \/ IsError(analytics)) =>
        /\ (pc = "evaluated" /\ Configured(arg_actividad)) =>
              /\ evaluacion = NoHayDatosSuficientes
              /\ evaluacion # Recomendadas(arg_actividad)
              /\ evaluacion.texto # NoRecomendadas(arg_actividad, <<>>).texto
        /\ pc = "recommended" =>
              /\ IsError(multiples)
              /\ DOMAIN multiples = {"error"}

C6_Witness ==
    /\ pc = "recommended"
    /\ analytics = NoHayDatos
    /\ arg_actividades = Some(<<"Playa", "Running">>)
    /\ IsError(multiples)

\* C7: an activity name that is no key of the profile table gets the "not
\* defined" result, which is neither the "insufficient data" result nor a
\* verdict, whatever the analytics record.
C7_UnknownActivityIsNotDefined ==
    (pc = "evaluated" /\ ~Configured(arg_actividad)) =>
        /\ evaluacion = NoDefinida(arg_actividad)
        /\ evaluacion.texto # NoHayDatosSuficientes.texto
        /\ evaluacion.texto # Recomendadas(arg_actividad).texto
        /\ evaluacion.texto # NoRecomendadas(arg_actividad, <<>>).texto

C7_Witness ==
    /\ pc = "evaluated"
    /\ arg_actividad = "Yoga"
    /\ IsError(analytics)
    /\ evaluacion = NoDefinida("Yoga")

\* C8: for a configured activity and a non-error record the verdict is
\* "recommended" exactly when the violation list is empty, which is exactly when
\* each of the five derived scalars lies in the activity's inclusive range.
C8_RecommendedIffAllInRange ==
    (pc = "evaluated" /\ Configured(arg_actividad) /\ RecordOk) =>
        /\ evaluacion = Recomendadas(arg_actividad) <=> Violations = <<>>
        /\ evaluacion.texto \in {Recomendadas(arg_actividad).texto,
                                 NoRecomendadas(arg_actividad, <<>>).texto}
        /\ Violations = <<>> <=>
              \A d \in DOMAIN Dimensions :
                  /\ ~MuyBajo(arg_actividad, Dimensions[d])
                  /\ ~MuyAlto(arg_actividad, Dimensions[d])

\* recommended with scalars equal to a lower and to an upper limit of the range
C8_Witness ==
    /\ pc = "evaluated"
    /\ arg_actividad = "Picnic"
    /\ RecordOk
    /\ Datos["temperatura"] = 15 * Unit
    /\ Datos["viento"] = 4 * Unit
    /\ Datos["nubes"] = 10 * Unit
    /\ evaluacion = Recomendadas("Picnic")

\* the dimensions out of range, in profile order
OutOfRange(actividad) ==
    SelectSeq(Dimensions, LAMBDA p : MuyBajo(actividad, p) \/ MuyAlto(actividad, p))

\* C9: the violation list has one entry per out-of-range dimension, "too low"
\* below the range and "too high" above it, in the profile's dimension order
\* (temperature, wind, UV, rain probability, clouds).
C9_OneViolationPerDimensionInOrder ==
    (pc = "evaluated" /\ Configured(arg_actividad) /\ RecordOk) =>
        LET out == OutOfRange(arg_actividad) IN
        /\ [i \in DOMAIN rangos[arg_actividad] |-> rangos[arg_actividad][i].parametro]
              = Dimensions
        /\ Len(Violations) = Len(out)
        /\ \A i \in DOMAIN out :
              Violations[i] =
                 Entrada(out[i],
                         IF MuyBajo(arg_actividad, out[i]) THEN "muy bajo" ELSE "muy alto",
                         Datos[out[i]])

\* temperature below the range, UV above it, the rest inside: two entries
C9_Witness ==
    /\ pc = "evaluated"
    /\ arg_actividad = "Running"
    /\ RecordOk
    /\ ~Unavailable("temperatura")
    /\ MuyBajo("Running", "temperatura")
    /\ MuyAlto("Running", "uv")
    /\ Len(Violations) = 2
    /\ Violations[1].parametro = "temperatura" /\ Violations[1].sentido = "muy bajo"
    /\ Violations[2].parametro = "uv" /\ Violations[2].sentido = "muy alto"

\* the list obtener_recomendaciones_multiples evaluated
Lista == IF arg_actividades = None THEN ActivityOrder ELSE arg_actividades[1]

\* C10: for a non-error record the summary reads "K of N", N the number of
\* activities evaluated and K the number of those whose own verdict is
\* "recommended".
C10_ResumenCountsRecommended ==
    (pc = "recommended" /\ RecordOk) =>
        /\ multiples.resumen.de = Len(Lista)
        /\ multiples.resumen.recomendables =
              Cardinality({i \in DOMAIN Lista :
                  multiples.recomendaciones[Lista[i]] = Recomendadas(Lista[i])})

\* the configured activities of the evaluated list whose own verdict is
\* "recommended", in the order of the profile table
RecomendadasEnTabla ==
    SelectSeq(ActivityOrder,
              LAMBDA act : /\ act \in SeqToSet(Lista)
                           /\ multiples.recomendaciones[act] = Recomendadas(act))

\* C11: the best option is the recommended activity that comes first in the
\* order of the profile table, also when the caller lists a subset in another
\* order, and it is None exactly when no evaluated activity is recommended.
C11_MejorOpcionFollowsTableOrder ==
    (pc = "recommended" /\ RecordOk) =>
        /\ multiples.mejor_opcion = None <=>
              \A i \in DOMAIN Lista :
                  multiples.recomendaciones[Lista[i]] # Recomendadas(Lista[i])
        /\ RecomendadasEnTabla # <<>> =>
              multiples.mejor_opcion = Some(RecomendadasEnTabla[1])

\* the scalars obtener_recomendaciones_multiples reports as "datos_utilizados"
DatosUtilizados == multiples.datos_utilizados

\* twice the midpoint of the two temperature means of the record
SumaDeMedias == analytics.temperature.min.average + analytics.temperature.max.average

\* the four scalars that are copied: each equals the average its summary carries
CopiedScalarsEqualRecordMeans ==
    /\ ~Unavailable("viento") => DatosUtilizados.viento = analytics.wind.average_speed
    /\ ~Unavailable("uv") => DatosUtilizados.uv = analytics.uv.average_index
    /\ ~Unavailable("precipitacion_probabilidad") =>
          DatosUtilizados.precipitacion_probabilidad =
              analytics.precipitation.probability_of_rain
    /\ ~Unavailable("nubes") => DatosUtilizados.nubes = analytics.clouds.average_coverage

\* C12 as stated: for a non-error record the temperature scalar equals
\* (min mean + max mean) / 2 and the other four scalars equal the record's mean
\* wind speed, mean UV index, rain probability and mean cloud coverage.
C12_TemperaturaIsMidpoint ==
    (pc = "recommended" /\ RecordOk) =>
        /\ ~Unavailable("temperatura") => 2 * DatosUtilizados.temperatura = SumaDeMedias
        /\ CopiedScalarsEqualRecordMeans

\* C12 amended: the temperature scalar is the midpoint rounded to one decimal,
\* so a multiple of a tenth at most 0.05 from (min mean + max mean) / 2; the
\* other four scalars equal the record's averages; means 10.0 and 20.0 give
\* exactly 15.0.
C12_TemperaturaIsRoundedMidpoint ==
    (pc = "recommended" /\ RecordOk) =>
        /\ ~Unavailable("temperatura") =>
              /\ DatosUtilizados.temperatura % Tenth = 0
              /\ 2 * DatosUtilizados.temperatura - SumaDeMedias \in (0 - Tenth)..Tenth
              /\ (analytics.temperature.min.average = 10 * Unit
                    /\ analytics.temperature.max.average = 20 * Unit) =>
                    DatosUtilizados.temperatura = 15 * Unit
        /\ CopiedScalarsEqualRecordMeans

C12_Witness ==
    /\ pc = "recommended"
    /\ RecordOk
    /\ \A d \in DOMAIN Dimensions : ~Unavailable(Dimensions[d])
    /\ analytics.temperature.min.average = 10 * Unit
    /\ analytics.temperature.max.average = 20 * Unit
    /\ DatosUtilizados.temperatura = 15 * Unit
    /\ DatosUtilizados.viento = analytics.wind.average_speed

\* ------------------------------------------------------------------ properties: the analyzers alone

\* the analyzer named was called on its own and returned
Analyzed(metric) == pc = "summarized" /\ stat_metric = metric

\* the number of samples strictly above 0.1 mm
RainyCount == Cardinality({i \in DOMAIN stat_values : stat_values[i] > Tenth})

\* x is n / d rounded to one decimal: a multiple of a tenth at most half a
\* tenth away from n / d
IsRound1(x, n, d) ==
    /\ x % Tenth = 0
    /\ 2 * (x * d - n) \in (0 - Tenth * d)..(Tenth * d)

\* C13: for a non-empty precipitation sequence, rainy_days is the number of
\* samples strictly above 0.1, total_days_analyzed the number of samples, and
\* probability_of_rain is 100 * rainy_days / total_days_analyzed rounded to one
\* decimal, within [0, 100]; ten samples with three above 0.1 give 30.0.
C13_RainProbability ==
    (Analyzed("precipitation") /\ stat_values # <<>>) =>
        /\ stat_summary.rainy_days = RainyCount
        /\ stat_summary.total_days_analyzed = Len(stat_values)
        /\ IsRound1(stat_summary.probability_of_rain,
                    100 * Unit * RainyCount, Len(stat_values))
        /\ stat_summary.probability_of_rain \in 0..(100 * Unit)
        /\ (Len(stat_values) = 10 /\ RainyCount = 3) =>
              stat_summary.probability_of_rain = 30 * Unit

C13_Witness ==
    /\ Analyzed("precipitation")
    /\ Len(stat_values) = 10
    /\ RainyCount = 3
    /\ stat_summary.rainy_days = 3
    /\ stat_summary.probability_of_rain = 30 * Unit

Buckets == {"drizzle", "light", "moderate", "heavy"}

\* the amounts of a bucket: drizzle (0.1, 2), light [2, 10), moderate [10, 30),
\* heavy [30, oo)
InBucket(b, v) ==
    CASE b = "drizzle" -> Tenth < v /\ v < 2 * Unit
      [] b = "light" -> 2 * Unit <= v /\ v < 10 * Unit
      [] b = "moderate" -> 10 * Unit <= v /\ v < 30 * Unit
      [] b = "heavy" -> 30 * Unit <= v

RainyIndices == {i \in DOMAIN stat_values : stat_values[i] > Tenth}

Distribution == stat_summary.intensity_distribution

\* C14: with at least one rainy day, every rainy-day value is in exactly one
\* of the four buckets and counted there, so the counts sum to the number of
\* rainy days; each percentage is 100 * count / rainy days rounded to one
\* decimal and the four sum to 100 within rounding (0.05 per bucket); with no
\* rainy day the breakdown is empty.
C14_BucketsPartitionRainyDays ==
    (Analyzed("precipitation") /\ stat_values # <<>>) =>
        IF RainyCount = 0 THEN Distribution = EmptyDict
        ELSE
            /\ DOMAIN Distribution = Buckets
            /\ \A i \in RainyIndices :
                  Cardinality({b \in Buckets : InBucket(b, stat_values[i])}) = 1
            /\ \A b \in Buckets :
                  /\ Distribution[b].count =
                        Cardinality({i \in RainyIndices : InBucket(b, stat_values[i])})
                  /\ IsRound1(Distribution[b].percentage,
                              100 * Unit * Distribution[b].count, RainyCount)
            /\ Distribution.drizzle.count + Distribution.light.count
                  + Distribution.moderate.count + Distribution.heavy.count = RainyCount
            /\ Distribution.drizzle.percentage + Distribution.light.percentage
                  + Distribution.moderate.percentage + Distribution.heavy.percentage
                  \in (100 * Unit - 2 * Tenth)..(100 * Unit + 2 * Tenth)

\* a dry day and two rainy days in different buckets, one of them on a limit
C14_Witness ==
    /\ Analyzed("precipitation")
    /\ Len(stat_values) = 3
    /\ RainyCount = 2
    /\ Distribution.drizzle.count = 1
    /\ Distribution.light.count = 1
    /\ \E i \in RainyIndices : stat_values[i] = 2 * Unit
    /\ Distribution.light.percentage = 50 * Unit

\* The bands a sequence of limits cuts the line into: band k holds the values
\* from limits[k - 1] (included) up to limits[k] (excluded); the first band
\* has no lower limit and the last no upper limit.  x is a fraction.
BandsOf(limits, x) ==
    {k \in 1..(Len(limits) + 1) :
        /\ (k = 1 \/ limits[k - 1] * Unit * x.d <= x.n)
        /\ (k = Len(limits) + 1 \/ x.n < limits[k] * Unit * x.d)}

\* label is the label of the one band that holds x
IsLabelOfBand(label, limits, labels, x) ==
    /\ Cardinality(BandsOf(limits, x)) = 1
    /\ \A k \in BandsOf(limits, x) : label = labels[k]

WindLimits == <<2, 5, 10, 15>>
WindLabels ==
    <<"Calma", "Brisa ligera", "Viento moderado", "Viento fuerte", "Viento muy fuerte">>
CloudLimits == <<25, 50, 75>>
CloudLabels == <<"Despejado", "Parcialmente nublado", "Nublado", "Muy nublado">>
UvLimits == <<3, 6, 8, 11>>
UvLabels == <<"Bajo", "Moderado", "Alto", "Muy alto", "Extremo">>

\* the exact statistics of the sample sequence
ExactMean == statistics_mean(stat_values)
ExactMax == Exact(SeqMax(stat_values))

\* C15: each classifier returns the label of the one band that holds the
\* value, limits belonging to the band above them (wind 2/5/10/15, cloud
\* 25/50/75, UV 3/6/8/11); wind 5.0 is "Viento moderado" (moderate) and 4.999
\* is "Brisa ligera" (light breeze).
C15_ClassifiersReturnTheBandOfTheValue ==
    (pc = "summarized" /\ stat_values # <<>>) =>
        /\ stat_metric = "wind" =>
              /\ IsLabelOfBand(stat_summary.classification, WindLimits, WindLabels,
                               ExactMean)
              /\ IsLabelOfBand(stat_summary.max_classification, WindLimits, WindLabels,
                               ExactMax)
              /\ ExactMax.n = 5 * Unit => stat_summary.max_classification = "Viento moderado"
              /\ ExactMax.n = 5 * Unit - 1 =>
                    stat_summary.max_classification = "Brisa ligera"
        /\ stat_metric = "clouds" =>
              IsLabelOfBand(stat_summary.classification, CloudLimits, CloudLabels,
                            ExactMean)
        /\ stat_metric = "uv" =>
              /\ IsLabelOfBand(stat_summary.risk_level, UvLimits, UvLabels, ExactMean)
              /\ IsLabelOfBand(stat_summary.max_risk_level, UvLimits, UvLabels, ExactMax)

\* samples 4.999 and 5.0: the maximum is on the limit, the mean just below it
C15_Witness ==
    /\ Analyzed("wind")
    /\ stat_values = <<5 * Unit - 1, 5 * Unit>>
    /\ stat_summary.max_classification = "Viento moderado"
    /\ stat_summary.classification = "Brisa ligera"
    /\ stat_summary.average_speed = 5 * Unit

\* the messages of get_rain_recommendation, from "ideal" to "not recommended"
RainMessages ==
    <<"Muy baja probabilidad de lluvia. Condiciones ideales.",
      "Baja probabilidad de lluvia. Probablemente seguro.",
      "Probabilidad moderada de lluvia. Considera llevar proteccion.",
      "Alta probabilidad de lluvia. Planifica con precaucion.",
      "Muy alta probabilidad de lluvia. Lleva equipo impermeable.",
      "Muy alta probabilidad de lluvia intensa. No recomendado.">>

RainLimits == <<20, 40, 60, 80>>

\* C16: the rain recommendation is chosen by the probability it is given:
\* below 20 "ideal", [20, 40) "likely safe", [40, 60) "moderate", [60, 80)
\* "plan with caution", from 80 on "very high" unless the mean rainy-day amount
\* it is given is strictly above 20 mm, then "not recommended"; that last
\* message is never returned for a probability below 80.  (The values given
\* are the ones the summary reports.)
C16_RainRecommendationTiers ==
    (Analyzed("precipitation") /\ stat_values # <<>>) =>
        LET probability == Exact(stat_summary.probability_of_rain)
            avg_mm == stat_summary.average_when_rained
            message == stat_summary.recommendation
        IN  /\ Cardinality(BandsOf(RainLimits, probability)) = 1
            /\ \A k \in BandsOf(RainLimits, probability) :
                  IF k < 5 THEN message = RainMessages[k]
                  ELSE IF avg_mm > 20 * Unit THEN message = RainMessages[6]
                  ELSE message = RainMessages[5]
            /\ message = RainMessages[6] => probability.n >= 80 * Unit

\* every day rainy, 30 mm on average: the escalated message
C16_Witness ==
    /\ Analyzed("precipitation")
    /\ stat_values = <<30 * Unit>>
    /\ stat_summary.probability_of_rain = 100 * Unit
    /\ stat_summary.average_when_rained = 30 * Unit
    /\ stat_summary.recommendation = RainMessages[6]

\* C17: the UV recommendation is chosen from the maximum sample by the five
\* bands of classify_uv_risk, each band with a text of its own: a maximum that
\* the classifier puts in another band than this one never gets the
\* recommendation this one got.
C17_UvRecommendationDistinguishesBands ==
    (Analyzed("uv") /\ stat_values # <<>>) =>
        \A other_max \in UvValues :
            classify_uv_risk(Exact(other_max)) # stat_summary.max_risk_level =>
                get_uv_recommendation(Exact(other_max)) # stat_summary.recommendation

\* the messages of get_wind_recommendation: strong caution, moderate caution,
\* calm-favorable, acceptable
WindMessages ==
    <<"Vientos muy fuertes registrados. Precaucion para actividades al aire libre.",
      "Vientos fuertes posibles. Considera actividades protegidas.",
      "Vientos generalmente tranquilos. Buenas condiciones.",
      "Vientos moderados. Condiciones aceptables.">>

\* C18: the wind recommendation is "strong caution" when the maximum is
\* strictly above 15, otherwise "moderate caution" when it is strictly above
\* 10, otherwise "calm-favorable" when the mean is strictly below 5, otherwise
\* "acceptable"; with a maximum above 10 the mean plays no part.
C18_WindRecommendationTiers ==
    (Analyzed("wind") /\ stat_values # <<>>) =>
        LET max_speed == SeqMax(stat_values)
            calm == Sum(stat_values) < 5 * Unit * Len(stat_values)
            message == stat_summary.recommendation
        IN  /\ max_speed > 15 * Unit => message = WindMessages[1]
            /\ (10 * Unit < max_speed /\ max_speed <= 15 * Unit) =>
                  message = WindMessages[2]
            /\ (max_speed <= 10 * Unit /\ calm) => message = WindMessages[3]
            /\ (max_speed <= 10 * Unit /\ ~calm) => message = WindMessages[4]

\* a maximum of exactly 10 and a mean below 5: calm-favorable
C18_Witness ==
    /\ Analyzed("wind")
    /\ stat_values = <<2 * Unit - 1, 10 * Unit, 2 * Unit - 1>>
    /\ stat_summary.max_speed = 10 * Unit
    /\ stat_summary.recommendation = WindMessages[3]

\* the messages and limits of get_uv_recommendation
UvMessages ==
    <<"Proteccion UV minima requerida.",
      "Usa protector solar. Busca sombra al mediodia.",
      "Proteccion necesaria. Protector solar, sombrero y lentes.",
      "Proteccion extra necesaria. Evita exposicion prolongada.">>
UvMessageLimits == <<3, 6, 8>>

\* the exact rain probability and the exact mean amount of the rainy days
ExactRainProbability == [n |-> 100 * Unit * RainyCount, d |-> Len(stat_values)]
ExactRainyMean == statistics_mean(SelectSeq(stat_values, LAMBDA v : v > Tenth))

\* C19: every label and message of the analyzers is the one the exact
\* statistic falls in: the wind, cloud and UV classes, the wind and UV
\* recommendations, and the rain recommendation by the exact rain probability
\* and the exact mean rainy-day amount, also where rounding to one decimal
\* crosses a limit.
C19_LabelsFollowExactStatistics ==
    (pc = "summarized" /\ stat_values # <<>>) =>
        /\ stat_metric = "wind" =>
              /\ IsLabelOfBand(stat_summary.classification, WindLimits, WindLabels,
                               ExactMean)
              /\ stat_summary.recommendation \in
                    {IF ExactMax.n > 15 * Unit THEN WindMessages[1]
                     ELSE IF ExactMax.n > 10 * Unit THEN WindMessages[2]
                     ELSE IF ExactMean.n < 5 * Unit * ExactMean.d THEN WindMessages[3]
                     ELSE WindMessages[4]}
        /\ stat_metric = "clouds" =>
              IsLabelOfBand(stat_summary.classification, CloudLimits, CloudLabels,
                            ExactMean)
        /\ stat_metric = "uv" =>
              /\ IsLabelOfBand(stat_summary.risk_level, UvLimits, UvLabels, ExactMean)
              /\ IsLabelOfBand(stat_summary.recommendation, UvMessageLimits, UvMessages,
                               ExactMax)
        /\ stat_metric = "precipitation" =>
              \A k \in BandsOf(RainLimits, ExactRainProbability) :
                  stat_summary.recommendation =
                      IF k < 5 THEN RainMessages[k]
                      ELSE IF ExactRainyMean.n > 20 * Unit * ExactRainyMean.d
                      THEN RainMessages[6]
                      ELSE RainMessages[5]

TemperatureFields == {"min", "max", "range", "typical_range"}
StatsFields == {"average", "median", "lowest", "highest", "std_dev"}

\* C20: analyze_temperature returns the error marker, without min or max
\* sub-summary and without range strings, whenever the sequence of minima or
\* the sequence of maxima is empty, and a full summary with both sub-summaries
\* whenever both are non-empty.
C20_TemperatureNeedsBothSequences ==
    (pc \in {"summarized", "raised"} /\ stat_metric = "temperature") =>
        IF stat_values = <<>> \/ stat_max_values = <<>>
        THEN /\ stat_summary = DatosInsuficientes
             /\ DOMAIN stat_summary \cap TemperatureFields = {}
        ELSE /\ DOMAIN stat_summary = TemperatureFields
             /\ DOMAIN stat_summary.min = StatsFields
             /\ DOMAIN stat_summary.max = StatsFields

\* minima given, no maxima: the error marker
C20_Witness ==
    /\ Analyzed("temperature")
    /\ stat_values # <<>>
    /\ stat_max_values = <<>>
    /\ stat_summary = DatosInsuficientes

\* C21: the standard deviation reported for the minima, and for the maxima, is
\* exactly 0 when that sequence has exactly one sample, whatever the length of
\* the other sequence.
C21_OneSampleHasNoDeviation ==
    (Analyzed("temperature") /\ stat_values # <<>> /\ stat_max_values # <<>>) =>
        /\ Len(stat_values) = 1 => stat_summary.min.std_dev = 0
        /\ Len(stat_max_values) = 1 => stat_summary.max.std_dev = 0

\* one minimum, and maxima that do deviate
C21_Witness ==
    /\ Analyzed("temperature")
    /\ Len(stat_values) = 1
    /\ Len(stat_max_values) > 1
    /\ stat_summary.min.std_dev = 0
    /\ stat_summary.max.std_dev > 0

\* a reported value lies within the reported lowest and highest value
Within(x, lo, hi) == lo <= x /\ x <= hi

\* C22: for a non-empty sequence, the reported (rounded) average and median lie
\* within the reported minimum and maximum of the same sequence, for both
\* temperature sub-summaries and for clouds; the reported wind and UV averages
\* never exceed the reported maximum.
C22_AverageWithinReportedRange ==
    (pc = "summarized" /\ ~IsError(stat_summary)) =>
        /\ stat_metric = "temperature" =>
              \A sub \in {"min", "max"} :
                  /\ Within(stat_summary[sub].average,
                            stat_summary[sub].lowest, stat_summary[sub].highest)
                  /\ Within(stat_summary[sub].median,
                            stat_summary[sub].lowest, stat_summary[sub].highest)
        /\ stat_metric = "clouds" =>
              /\ Within(stat_summary.average_coverage,
                        stat_summary.min_coverage, stat_summary.max_coverage)
              /\ Within(stat_summary.median_coverage,
                        stat_summary.min_coverage, stat_summary.max_coverage)
        /\ stat_metric = "wind" => stat_summary.average_speed <= stat_summary.max_speed
        /\ stat_metric = "uv" => stat_summary.average_index <= stat_summary.max_index

\* minima -0.15 and -0.05: the exact mean -0.1 lies strictly inside, and the
\* reported lowest and highest value are both rounded onto it
C22_Witness ==
    /\ Analyzed("temperature")
    /\ stat_values = <<0 - 150, 0 - 50>>
    /\ stat_max_values # <<>>
    /\ stat_summary.min.average = 0 - Tenth
    /\ stat_summary.min.lowest = 0 - Tenth
    /\ stat_summary.min.highest = 0 - Tenth

\* ------------------------------------------------------------------ properties: callers side by side

\* the result of the call made alone, as a function of its arguments
Secuencial(call, t) ==
    CASE call.kind = "multiples" ->
            obtener_recomendaciones_multiples(call.analytics, call.actividades, t)
      [] call.kind = "actividad" ->
            evaluar_actividad_con_analytics(call.analytics, call.actividad, t)
      [] call.kind = "clima" -> evaluar_clima(call.valores, call.actividad)
      [] call.kind = "analyze" -> analyze_weather_data(call.results, t).ret

ResultsAreSequential ==
    /\ tabla = rangos
    /\ \A p \in Callers :
          par_pc[p] = "returned" => par_ret[p] = Secuencial(par_call[p], tie)

InputsUntouched ==
    /\ tabla' = tabla
    /\ par_call' = par_call
    /\ \A p \in Callers : par_pc[p] = "returned" => par_ret'[p] = par_ret[p]

Validated == req_day # None /\ req_activity # ""

\* get_weather_for has left, with a value or an exception
Left == pc \in {"finished", "responded"}

AllSucceeded == \A k \in DOMAIN fetch_queries : fetch_queries[k].outcome = "ok"

\* C24: the requests go out one at a time for the lookback years Y-1, Y-2, ...,
\* Y-29 in that order; when every request succeeds the call returns exactly 29
\* parameter maps in that order; the first failed request ends the call with
\* ExternalAPIError, no request follows it and no fetched year is returned.
C24_SequentialFailFastFetch ==
    /\ \A k \in DOMAIN fetch_queries :
          /\ fetch_queries[k].date.y = req_day[1].y - k
          /\ k < Len(fetch_queries) => fetch_queries[k].outcome = "ok"
    /\ Len(fetch_queries) < RangeStop
    /\ (Left /\ Validated /\ AllSucceeded) =>
          /\ "returned" \in DOMAIN fetch_outcome
          /\ Len(fetch_outcome.returned.weather.data) = RangeStop - 1
          /\ \A k \in 1..(RangeStop - 1) :
                fetch_outcome.returned.weather.data[k] = ParameterMap(fetch_queries[k].date)
    /\ (Left /\ fetch_queries # <<>>
             /\ fetch_queries[Len(fetch_queries)].outcome = "RequestException") =>
          fetch_outcome = Raised("ExternalAPIError")


\* the date the lookback year i of a requested day stands for: the same month
\* and day, 28 February for a 29 February when that year is not a leap year
LookbackDate(parsed_day, i) ==
    LET year == parsed_day.y - i
    IN  Date(year, parsed_day.m,
             IF parsed_day.m = 2 /\ parsed_day.d = 29 /\ ~IsLeap(year)
             THEN 28 ELSE parsed_day.d)

\* C25: for every valid requested day and every lookback year the queried date
\* has the requested month and day in that year, a 29 February being queried as
\* 28 February in the lookback years that are not leap years; computing the
\* query date never raises.
C25_QueryDateOfEveryLookbackYear ==
    /\ \A k \in DOMAIN fetch_queries :
          fetch_queries[k].date = LookbackDate(req_day[1], k)
    /\ Left => ~("raised" \in DOMAIN fetch_outcome /\ fetch_outcome.raised = "ValueError")


\* ------------------------------------------------------------------ properties: names outside the table

\* the evaluated list holds a name the profile table does not have, and the
\* record gave values to evaluate
ListaConDesconocida ==
    /\ pc = "recommended"
    /\ "error" \notin DOMAIN multiples
    /\ \E i \in DOMAIN Lista : Lista[i] \notin DOMAIN rangos

\* the evaluated list without the names the profile table does not have
ListaConocida == SelectSeq(Lista, LAMBDA act : act \in DOMAIN rangos)

\* C26: a name of the caller's list that is absent from the profile table gets
\* the 'not defined' result, counts in N but never in K of the summary, is
\* never the best option, and leaves the verdicts of the other listed
\* activities as they are when it is not listed.
C26_UnknownNameIsNeverRecommended ==
    ListaConDesconocida =>
        /\ \A i \in DOMAIN Lista :
              Lista[i] \notin DOMAIN rangos =>
                 /\ multiples.recomendaciones[Lista[i]] = NoDefinida(Lista[i])
                 /\ multiples.mejor_opcion # Some(Lista[i])
        /\ multiples.resumen.de = Len(Lista)
        /\ multiples.resumen.recomendables =
              Cardinality({i \in DOMAIN Lista :
                  /\ Lista[i] \in DOMAIN rangos
                  /\ multiples.recomendaciones[Lista[i]] = Recomendadas(Lista[i])})
        /\ \A i \in DOMAIN ListaConocida :
              multiples.recomendaciones[ListaConocida[i]] =
                 obtener_recomendaciones_multiples(analytics, Some(ListaConocida), tie)
                    .recomendaciones[ListaConocida[i]]


\* ------------------------------------------------------------------ properties: the endpoints

\* get_weather_for raised the exception and the endpoint has answered
AnsweredTo(exception) ==
    /\ pc = "responded"
    /\ "raised" \in DOMAIN fetch_outcome
    /\ fetch_outcome.raised = exception

\* C27: on /forecast, /recommendations and /forecast/download a ValidationError
\* of get_weather_for is answered with status 400 and an ExternalAPIError with
\* status 503; neither is reported as status 500.
C27_ErrorsKeepTheirStatus ==
    /\ AnsweredTo("ValidationError") => http_status = 400
    /\ AnsweredTo("ExternalAPIError") => http_status = 503

====
